---- MODULE Spec2Model ----
(***************************************************************************)
(* Model of CloudflareR2Uploader (sorawm/utils/cloudflare_r2_uploader.py). *)
(* One call of upload_multipart, upload_file or upload_directory is run    *)
(* against a remote store whose calls may succeed, fail with a ClientError *)
(* or fail with another exception.  The log `calls` records every remote   *)
(* call the uploader issues, in order.                                     *)
(***************************************************************************)
EXTENDS Integers, Sequences, FiniteSets, TLC

\* ---------------------------------------------------------------- bounds
MaxFileSize == 5
MaxPartSize == 3

FileSizes == 0..MaxFileSize
\* part_size is an unchecked int parameter; 0 makes line 283 divide by zero
PartSizes == 0..MaxPartSize
UploadIds == {"u1", "u2"}
ETags == {"e1", "e2"}
Contents == {"c1", "c2"}
\* the two exception classes the handlers tell apart:
\* botocore ClientError, and any other Exception (IOError, connection errors)
RemoteErrors == {"ClientError", "Exception"}

VARIABLES
  op,            \* the method that was called
  pc,            \* position in the running call
  local_file,    \* [exists, size, content]: the file at local_file_path
  remote_key,    \* remote_key after defaulting
  part_size,     \* upload_multipart's part_size
  metadata,      \* the metadata argument: [present, map]
  show_progress, \* the show_progress argument
  overwrite,     \* upload_file's overwrite argument
  upload_meta,   \* upload_kwargs['Metadata'] of upload_file
  upload_id,     \* response['UploadId']
  num_parts,     \* num_parts
  parts,         \* parts: sequence of [ETag, PartNumber]
  part_num,      \* loop variable of range(1, num_parts + 1)
  pos,           \* read offset of the open file
  chunk,         \* len(chunk) of the last file.read
  progress_bar,  \* TRUE when a tqdm bar was created
  progress_n,    \* bytes reported to the bar so far
  e,             \* the exception bound in the inner `except Exception as e`
  dir_tree,      \* what dir_path.rglob('*') yields, in order
  remote_prefix, \* upload_directory's remote_prefix
  include_patterns, \* [present, pats]
  exclude_patterns, \* [present, pats]
  all_files,     \* all_files
  file_idx,      \* position of the loop over all_files
  results,       \* results
  attempts,      \* the files upload_directory handed to upload_file, in order
  objects0,      \* the store's objects when the call began
  objects,       \* remote store: key -> object
  sessions,      \* remote store: upload id -> multipart session
  calls,         \* every remote call issued, in order
  outcome        \* how the call ended: returned a result or raised

inputVars == <<local_file, remote_key, part_size, metadata, show_progress>>
mpVars == <<upload_id, num_parts, parts, part_num, pos, chunk, progress_bar, progress_n, e>>
ufVars == <<overwrite, upload_meta>>
udVars == <<dir_tree, remote_prefix, include_patterns, exclude_patterns, all_files,
           file_idx, results, attempts>>
storeVars == <<objects, sessions>>
vars == <<op, pc, inputVars, mpVars, ufVars, udVars, storeVars, objects0, calls, outcome>>

\* ------------------------------------------------------------ exceptions
NoExc == [cls |-> "none", at |-> "none", code |-> "none"]
Exc(cls, at, code) == [cls |-> cls, at |-> at, code |-> code]
\* a failing remote call raises one of these
RemoteFailures(at) == {Exc(c, at, "500") : c \in RemoteErrors}

NoResult == [success |-> FALSE, error |-> NoExc, kind |-> "none"]
NoOutcome == [kind |-> "none", result |-> NoResult, error |-> NoExc, context |-> NoExc]
Returned(r) == [kind |-> "return", result |-> r, error |-> NoExc, context |-> NoExc]
\* exception x leaves the call; ctx is the exception being handled when x was raised
Raised(x, ctx) == [kind |-> "raise", result |-> NoResult, error |-> x, context |-> ctx]

\* ------------------------------------------------------------ remote log
\* op: the client method; res: "ok" or the class of the exception it raised;
\* ETag: the completion token upload_part returned; Body: len(chunk) sent
\* Key: the Key argument; Code: the error code of a ClientError
Call(m, id, part, plist, res, etag, body) ==
  [op |-> m, Key |-> remote_key, UploadId |-> id, PartNumber |-> part, Parts |-> plist,
   res |-> res, Code |-> "-", ETag |-> etag, Body |-> body]
KeyCall(m, res, code) == [Call(m, "-", 0, <<>>, res, "-", 0) EXCEPT !.Code = code]

Issued(m) == {i \in DOMAIN calls : calls[i].op = m}
Succeeded(m) == {i \in DOMAIN calls : calls[i].op = m /\ calls[i].res = "ok"}
Failed(m) == {i \in DOMAIN calls : calls[i].op = m /\ calls[i].res # "ok"}

\* ---------------------------------------------------------------- inputs
\* metadata maps are sets of <<key, value>> pairs with unique keys
MetaInputs ==
  { [present |-> FALSE, map |-> {}],
    [present |-> TRUE, map |-> {}],
    [present |-> TRUE, map |-> {<<"author", "a">>}],
    [present |-> TRUE, map |-> {<<"file-hash", "stale">>}] }
\* `if metadata:` is true for a non-empty mapping only
Truthy(md) == md.present /\ md.map # {}

\* paths are sequences of components; a component is a sequence of characters
FilePath == << <<"f">> >>
NoFile == [path |-> FilePath, exists |-> FALSE, size |-> 0, content |-> "c1"]
LocalFiles ==
  {NoFile} \cup {[path |-> FilePath, exists |-> TRUE, size |-> s, content |-> c] :
                   s \in FileSizes, c \in Contents}

KeyName == <<"k">>

NoPatterns == [present |-> FALSE, pats |-> <<>>]
NoBatch == [success |-> 0, failed |-> 0, total |-> 0, files |-> <<>>]

\* mutant of Min: a read always yields a full part
MinFirst(a, b) == a

Min(a, b) == IF a <= b THEN a ELSE b

RECURSIVE SumSizes(_, _)
\* total size of the parts a finalize list names, as the store assembles them
SumSizes(plist, uploaded) ==
  IF plist = <<>> THEN 0
  ELSE LET n == Head(plist).PartNumber
           sz == IF n \in DOMAIN uploaded THEN uploaded[n].size ELSE 0
       IN sz + SumSizes(Tail(plist), uploaded)

EmptyFcn == [x \in {} |-> x]

\* lines 225-230 and 357-362: the failure result of upload_file and of
\* upload_multipart
FailureRes(x) ==
  [success |-> FALSE, error |-> x, kind |-> "failure",
   local_path |-> local_file.path, remote_key |-> remote_key]

\* ------------------------------------------------------ upload_multipart
\* mutant of NumParts: floor instead of ceiling
NumPartsFloor(file_size, psize) == file_size \div psize

\* line 283: (file_size + part_size - 1) // part_size, for part_size >= 1
NumParts(file_size, psize) == (file_size + psize - 1) \div psize

\* mutant of OuterExcept: no outer handler, every exception propagates
OuterExceptReraise(x, ctx) == Raised(x, ctx)

\* lines 354-362: the outer handler turns a ClientError into a failure
\* result; any other exception leaves upload_multipart
OuterExcept(x, ctx) ==
  IF x.cls = "ClientError"
  THEN Returned(FailureRes(x))
  ELSE Raised(x, ctx)

\* mutant of LoopHead: the loop stops one part early
LoopHeadSkipsLast(n) == IF n < num_parts THEN "mp_read" ELSE "mp_complete"

\* loop head of `for part_num in range(1, num_parts + 1)`
LoopHead(n) == IF n <= num_parts THEN "mp_read" ELSE "mp_complete"

\* lines 255-275: argument checks and upload_kwargs
MPCall ==
  /\ pc = "idle"
  /\ \E f \in LocalFiles, p \in PartSizes, sp \in BOOLEAN, md \in MetaInputs :
       /\ local_file' = f
       /\ part_size' = p
       /\ show_progress' = sp
       /\ metadata' = md
       /\ remote_key' = KeyName
       /\ IF f.exists
          THEN pc' = "mp_create" /\ outcome' = outcome
          ELSE /\ pc' = "done"
               /\ outcome' = Raised(Exc("Exception", "exists", "FileNotFoundError"), NoExc)
  /\ op' = "upload_multipart"
  /\ UNCHANGED <<mpVars, ufVars, udVars, storeVars, objects0, calls>>

\* lines 279-280: create_multipart_upload
MPCreate ==
  /\ pc = "mp_create"
  /\ \/ \E id \in UploadIds :
          /\ upload_id' = id
          /\ sessions' = (id :> [key |-> remote_key, status |-> "open",
                                 metadata |-> IF Truthy(metadata) THEN metadata.map ELSE {},
                                 uploaded |-> EmptyFcn])
          /\ calls' = Append(calls, Call("create_multipart_upload", id, 0, <<>>, "ok", "-", 0))
          /\ pc' = "mp_setup"
          /\ outcome' = outcome
     \/ \E x \in RemoteFailures("create_multipart_upload") :
          /\ calls' = Append(calls, Call("create_multipart_upload", "-", 0, <<>>, x.cls, "-", 0))
          /\ outcome' = OuterExcept(x, NoExc)
          /\ pc' = "done"
          /\ UNCHANGED <<upload_id, sessions>>
  /\ UNCHANGED <<op, ufVars, udVars, objects0, inputVars, num_parts, parts, part_num, pos, chunk, progress_bar,
                 progress_n, e, objects>>

\* lines 283-295: num_parts, parts = [], the tqdm bar; none of it is inside
\* the inner try, so a failure here reaches the outer handler only
MPSetup ==
  /\ pc = "mp_setup"
  /\ IF part_size = 0
     THEN /\ outcome' = OuterExcept(Exc("Exception", "num_parts", "ZeroDivisionError"), NoExc)
          /\ pc' = "done"
          /\ UNCHANGED <<num_parts, parts, progress_bar>>
     ELSE /\ num_parts' = NumParts(local_file.size, part_size)
          /\ parts' = <<>>
          /\ IF show_progress
             THEN \/ progress_bar' = TRUE /\ pc' = "mp_open" /\ outcome' = outcome
                  \/ /\ progress_bar' = FALSE
                     /\ outcome' = OuterExcept(Exc("Exception", "tqdm", "-"), NoExc)
                     /\ pc' = "done"
             ELSE progress_bar' = FALSE /\ pc' = "mp_open" /\ outcome' = outcome
  /\ UNCHANGED <<op, ufVars, udVars, objects0, inputVars, upload_id, part_num, pos, chunk, progress_n, e, storeVars, calls>>

\* line 298: open(local_file_path, 'rb'), then the loop head
MPOpen ==
  /\ pc = "mp_open"
  /\ \/ pos' = 0 /\ part_num' = 1 /\ pc' = LoopHead(1) /\ e' = e
     \/ e' = Exc("Exception", "open", "IOError") /\ pc' = "mp_abort" /\ UNCHANGED <<pos, part_num>>
  /\ UNCHANGED <<op, ufVars, udVars, objects0, inputVars, upload_id, num_parts, parts, chunk, progress_bar, progress_n,
                 storeVars, calls, outcome>>

\* line 301: chunk = file.read(part_size)
MPRead ==
  /\ pc = "mp_read"
  /\ \/ /\ chunk' = Min(part_size, local_file.size - pos)
        /\ pos' = pos + chunk'
        /\ pc' = "mp_upload_part"
        /\ e' = e
     \/ e' = Exc("Exception", "read", "IOError") /\ pc' = "mp_abort" /\ UNCHANGED <<pos, chunk>>
  /\ UNCHANGED <<op, ufVars, udVars, objects0, inputVars, upload_id, num_parts, parts, part_num, progress_bar, progress_n,
                 storeVars, calls, outcome>>

\* lines 304-315: upload_part, then parts.append
MPUploadPart ==
  /\ pc = "mp_upload_part"
  /\ \/ \E t \in ETags :
          /\ calls' = Append(calls, Call("upload_part", upload_id, part_num, <<>>, "ok", t, chunk))
          /\ parts' = Append(parts, [ETag |-> t, PartNumber |-> part_num])
          /\ sessions' = [sessions EXCEPT ![upload_id].uploaded =
                            (part_num :> [etag |-> t, size |-> chunk]) @@ @]
          /\ pc' = "mp_update"
          /\ e' = e
     \/ \E x \in RemoteFailures("upload_part") :
          /\ calls' = Append(calls, Call("upload_part", upload_id, part_num, <<>>, x.cls, "-", chunk))
          /\ e' = x
          /\ pc' = "mp_abort"
          /\ UNCHANGED <<parts, sessions>>
  /\ UNCHANGED <<op, ufVars, udVars, objects0, inputVars, upload_id, num_parts, part_num, pos, chunk, progress_bar,
                 progress_n, objects, outcome>>

\* lines 317-318: progress_bar.update(len(chunk)), then the next iteration
MPUpdate ==
  /\ pc = "mp_update"
  /\ \/ /\ progress_n' = IF progress_bar THEN progress_n + chunk ELSE progress_n
        /\ part_num' = part_num + 1
        /\ pc' = LoopHead(part_num + 1)
        /\ e' = e
     \/ /\ progress_bar
        /\ e' = Exc("Exception", "update", "-")
        /\ pc' = "mp_abort"
        /\ UNCHANGED <<progress_n, part_num>>
  /\ UNCHANGED <<op, ufVars, udVars, objects0, inputVars, upload_id, num_parts, parts, pos, chunk, progress_bar,
                 storeVars, calls, outcome>>

\* lines 321-326: complete_multipart_upload with MultipartUpload={'Parts': parts}
MPComplete ==
  /\ pc = "mp_complete"
  /\ \/ /\ calls' = Append(calls, Call("complete_multipart_upload", upload_id, 0, parts, "ok", "-", 0))
        /\ sessions' = [sessions EXCEPT ![upload_id].status = "completed"]
        /\ objects' = (remote_key :> [size |-> SumSizes(parts, sessions[upload_id].uploaded),
                                      metadata |-> sessions[upload_id].metadata,
                                      content |-> local_file.content,
                                      via |-> "multipart"]) @@ objects
        /\ pc' = "mp_close"
        /\ e' = e
     \/ \E x \in RemoteFailures("complete_multipart_upload") :
          /\ calls' = Append(calls, Call("complete_multipart_upload", upload_id, 0, parts, x.cls, "-", 0))
          /\ e' = x
          /\ pc' = "mp_abort"
          /\ UNCHANGED <<sessions, objects>>
  /\ UNCHANGED <<op, ufVars, udVars, objects0, inputVars, upload_id, num_parts, parts, part_num, pos, chunk, progress_bar,
                 progress_n, outcome>>

\* lines 328-343: progress_bar.close(), the result, return; still inside
\* the inner try, so a failing close() enters the handler that aborts
MPClose ==
  /\ pc = "mp_close"
  /\ \/ /\ outcome' = Returned([success |-> TRUE, error |-> NoExc, kind |-> "multipart",
                                 local_path |-> local_file.path,
                                 remote_key |-> remote_key, file_size |-> local_file.size,
                                 parts_count |-> num_parts])
        /\ pc' = "done"
        /\ e' = e
     \/ /\ progress_bar
        /\ e' = Exc("Exception", "close", "-")
        /\ pc' = "mp_abort"
        /\ outcome' = outcome
  /\ UNCHANGED <<op, ufVars, udVars, objects0, inputVars, upload_id, num_parts, parts, part_num, pos, chunk, progress_bar,
                 progress_n, storeVars, calls>>

\* mutant of MPAbort: the inner handler re-raises without aborting
MPAbortNoCall ==
  /\ pc = "mp_abort"
  /\ outcome' = OuterExcept(e, NoExc)
  /\ pc' = "done"
  /\ UNCHANGED <<op, ufVars, udVars, objects0, inputVars, mpVars, storeVars, calls>>

\* lines 345-352: the inner handler: abort_multipart_upload, then `raise e`,
\* which the outer handler (lines 354-362) receives; an exception of the
\* abort call itself replaces e (e is its __context__)
MPAbort ==
  /\ pc = "mp_abort"
  /\ \/ /\ calls' = Append(calls, Call("abort_multipart_upload", upload_id, 0, <<>>, "ok", "-", 0))
        /\ sessions' = [sessions EXCEPT ![upload_id].status = "aborted"]
        /\ outcome' = OuterExcept(e, NoExc)
     \/ \E x \in RemoteFailures("abort_multipart_upload") :
          /\ calls' = Append(calls, Call("abort_multipart_upload", upload_id, 0, <<>>, x.cls, "-", 0))
          /\ outcome' = OuterExcept(x, e)
          /\ UNCHANGED sessions
  /\ pc' = "done"
  /\ UNCHANGED <<op, ufVars, udVars, objects0, inputVars, mpVars, objects>>

\* ----------------------------------------------------------- upload_file
\* line 179: 1024 * 1024
ProgressThreshold == 1048576

\* upload_file is also given a file above the progress threshold
BigFiles ==
  {[path |-> FilePath, exists |-> TRUE, size |-> ProgressThreshold + 1, content |-> c] :
     c \in Contents}

\* lines 91-97: the MD5 hex digest of the file's content
Md5(content) == CASE content = "c1" -> "h1" [] content = "c2" -> "h2" [] OTHER -> "h0"

\* mutant of WithFileHash: a caller's 'file-hash' entry is kept
WithFileHashKeepsCaller(md, h) ==
  LET base == IF Truthy(md) THEN md.map ELSE {}
  IN IF \E kv \in base : kv[1] = "file-hash" THEN base ELSE base \cup {<<"file-hash", h>>}

\* lines 170-176: upload_kwargs['Metadata'] with 'file-hash' set
WithFileHash(md, h) ==
  LET base == IF Truthy(md) THEN md.map ELSE {}
  IN {kv \in base : kv[1] # "file-hash"} \cup {<<"file-hash", h>>}

\* lines 182-202: the object s3_client.upload_file stores for file f sent
\* with ExtraArgs Metadata meta
PutObject(f, meta) ==
  [size |-> f.size, metadata |-> meta, content |-> f.content, via |-> "put"]

\* where control goes when upload_file ends
RetPc == IF op = "upload_directory" THEN "ud_result" ELSE "done"

\* mutant of UFExcept: the handler catches every exception
UFExceptCatchAll(x) == Returned(FailureRes(x))

\* lines 222-230: a ClientError inside the try becomes a failure result;
\* any other exception leaves upload_file
UFExcept(x) ==
  IF x.cls = "ClientError"
  THEN Returned(FailureRes(x))
  ELSE Raised(x, NoExc)

\* lines 137-147: upload_file is entered with these arguments; ret is where
\* control goes if it ends here
UFEnter(f, key, md, sp, ow, ret) ==
  /\ local_file' = f
  /\ remote_key' = key
  /\ metadata' = md
  /\ show_progress' = sp
  /\ overwrite' = ow
  /\ IF f.exists
     THEN /\ pc' = IF ow THEN "uf_hash" ELSE "uf_probe"
          /\ outcome' = NoOutcome
     ELSE /\ pc' = ret
          /\ outcome' = Raised(Exc("Exception", "exists", "FileNotFoundError"), NoExc)

\* a caller invokes upload_file
UFCall ==
  /\ pc = "idle"
  /\ op' = "upload_file"
  /\ \E f \in LocalFiles \cup BigFiles, md \in MetaInputs, sp \in BOOLEAN, ow \in BOOLEAN :
       UFEnter(f, KeyName, md, sp, ow, "done")
  /\ UNCHANGED <<part_size, mpVars, upload_meta, udVars, storeVars, objects0, calls>>

\* mutant of UFProbe: an existing object does not stop the upload
UFProbeIgnoresExisting ==
  /\ pc = "uf_probe"
  /\ calls' = Append(calls, KeyCall("head_object",
                                    IF remote_key \in DOMAIN objects THEN "ok" ELSE "ClientError",
                                    IF remote_key \in DOMAIN objects THEN "-" ELSE "404"))
  /\ outcome' = outcome
  /\ pc' = "uf_hash"
  /\ UNCHANGED <<op, inputVars, mpVars, ufVars, udVars, storeVars, objects0>>

\* lines 149-156: the existence probe when overwrite is disallowed
UFProbe ==
  /\ pc = "uf_probe"
  /\ \/ /\ remote_key \in DOMAIN objects
        /\ calls' = Append(calls, KeyCall("head_object", "ok", "-"))
        /\ outcome' = Raised(Exc("Exception", "head_object", "FileExistsError"), NoExc)
        /\ pc' = RetPc
     \/ /\ remote_key \notin DOMAIN objects
        /\ calls' = Append(calls, KeyCall("head_object", "ClientError", "404"))
        /\ outcome' = outcome
        /\ pc' = "uf_hash"
     \/ \E x \in {Exc("ClientError", "head_object", "403"), Exc("Exception", "head_object", "500")} :
          /\ calls' = Append(calls, KeyCall("head_object", x.cls, x.code))
          /\ outcome' = Raised(x, NoExc)
          /\ pc' = RetPc
  /\ UNCHANGED <<op, inputVars, mpVars, ufVars, udVars, storeVars, objects0>>

\* lines 158-176: content type, upload_kwargs, _calculate_file_hash
UFHash ==
  /\ pc = "uf_hash"
  /\ \/ /\ upload_meta' = WithFileHash(metadata, Md5(local_file.content))
        /\ pc' = "uf_transfer"
        /\ outcome' = outcome
     \/ /\ outcome' = Raised(Exc("Exception", "hash", "IOError"), NoExc)
        /\ pc' = RetPc
        /\ UNCHANGED upload_meta
  /\ UNCHANGED <<op, inputVars, mpVars, overwrite, udVars, storeVars, objects0, calls>>

\* lines 178-202: the progress bar when asked for and the file is above the
\* threshold, s3_client.upload_file, progress_bar.close()
UFTransfer ==
  /\ pc = "uf_transfer"
  /\ LET bar == show_progress /\ local_file.size > ProgressThreshold
     IN \/ /\ bar
           /\ outcome' = UFExcept(Exc("Exception", "tqdm", "-"))
           /\ pc' = RetPc
           /\ UNCHANGED <<progress_bar, objects, calls>>
        \/ /\ calls' = Append(calls, KeyCall("upload_file", "ok", "-"))
           /\ objects' = (remote_key :> PutObject(local_file, upload_meta)) @@ objects
           /\ progress_bar' = bar
           /\ \/ pc' = "uf_reprobe" /\ outcome' = outcome
              \/ /\ bar
                 /\ outcome' = UFExcept(Exc("Exception", "close", "-"))
                 /\ pc' = RetPc
        \/ \E x \in RemoteFailures("upload_file") :
             /\ calls' = Append(calls, KeyCall("upload_file", x.cls, x.code))
             /\ outcome' = UFExcept(x)
             /\ pc' = RetPc
             /\ UNCHANGED <<progress_bar, objects>>
  /\ UNCHANGED <<op, inputVars, upload_id, num_parts, parts, part_num, pos, chunk,
                 progress_n, e, ufVars, udVars, sessions, objects0>>

\* lines 204-220: head_object after the transfer, the result, return
UFReprobe ==
  /\ pc = "uf_reprobe"
  /\ \/ /\ remote_key \in DOMAIN objects
        /\ calls' = Append(calls, KeyCall("head_object", "ok", "-"))
        /\ outcome' = Returned([success |-> TRUE, error |-> NoExc, kind |-> "single",
                                 local_path |-> local_file.path,
                                 remote_key |-> remote_key, file_size |-> local_file.size,
                                 metadata |-> objects[remote_key].metadata])
     \/ \E x \in {Exc("ClientError", "head_object", "403"), Exc("Exception", "head_object", "500")} :
          /\ calls' = Append(calls, KeyCall("head_object", x.cls, x.code))
          /\ outcome' = UFExcept(x)
  /\ pc' = RetPc
  /\ UNCHANGED <<op, inputVars, mpVars, ufVars, udVars, storeVars, objects0>>

\* ------------------------------------------------------ upload_directory
MaxEntries == 5

A_TXT == <<"a", ".", "t", "x", "t">>
B_TMP == <<"b", ".", "t", "m", "p">>
B_TXT_TMP == <<"b", ".", "t", "x", "t", ".", "t", "m", "p">>
C_JPG == <<"c", ".", "j", "p", "g">>
\* the entries under the root, in the order rglob('*') yields them; rel is
\* the path relative to the root
Universe ==
  << [rel |-> <<A_TXT>>, is_file |-> TRUE],
     [rel |-> <<B_TMP>>, is_file |-> TRUE],
     [rel |-> << <<"d">> >>, is_file |-> FALSE],
     [rel |-> << <<"d">>, B_TXT_TMP >>, is_file |-> TRUE],
     [rel |-> <<C_JPG>>, is_file |-> TRUE] >>

RECURSIVE Pick(_, _, _)
\* the entries of u whose positions (from i on) are in the set keep
Pick(u, keep, i) ==
  IF i > Len(u) THEN <<>>
  ELSE (IF i \in keep THEN <<u[i]>> ELSE <<>>) \o Pick(u, keep, i + 1)

\* trees of at most MaxEntries entries; an entry inside d comes with d
DirTrees ==
  { Pick(Universe, keep, 1) :
      keep \in { k \in SUBSET (1..Len(Universe)) :
                   Cardinality(k) <= MaxEntries /\ (4 \in k => 3 \in k) } }

Pat(cs) == <<cs>>
STAR_TXT == Pat(<<"*", ".", "t", "x", "t">>)
STAR_JPG == Pat(<<"*", ".", "j", "p", "g">>)
STAR_TMP == Pat(<<"*", ".", "t", "m", "p">>)
B_STAR == Pat(<<"b", "*">>)
IncludeInputs ==
  { NoPatterns,
    [present |-> TRUE, pats |-> <<>>],
    [present |-> TRUE, pats |-> <<STAR_TXT>>],
    [present |-> TRUE, pats |-> <<B_STAR, STAR_JPG>>] }
ExcludeInputs == { NoPatterns, [present |-> TRUE, pats |-> <<STAR_TMP>>] }
Prefixes == { <<>>, <<"p">>, <<"p", "/">> }

\* the parts of dir_path
RootParts == << <<"r">> >>

RECURSIVE FnMatch(_, _)
\* fnmatch of one path component against one pattern component; '*' stands
\* for any run of characters
FnMatch(name, pat) ==
  IF pat = <<>> THEN name = <<>>
  ELSE IF Head(pat) = "*"
       THEN FnMatch(name, Tail(pat)) \/ (name # <<>> /\ FnMatch(Tail(name), pat))
       ELSE name # <<>> /\ Head(name) = Head(pat) /\ FnMatch(Tail(name), Tail(pat))

\* lines 402 and 407: file_path.match(pattern) for a relative pattern: the
\* pattern's components are matched against the last components of the path
PathMatch(path, pat) ==
  LET n == Len(pat)
      m == Len(path)
  IN n >= 1 /\ n <= m /\ \A i \in 1..n : FnMatch(path[m - n + i], pat[i])

AnyMatch(path, pats) == \E i \in DOMAIN pats : PathMatch(path, pats[i])
\* `if include_patterns:` is true for a non-empty list only
Given(ps) == ps.present /\ ps.pats # <<>>

\* mutant of Selects: a file that matches an include pattern is kept even
\* if it matches an exclude pattern
SelectsIncludeWins(entry, inc, exc) ==
  /\ entry.is_file
  /\ \/ Given(inc) /\ AnyMatch(RootParts \o entry.rel, inc.pats)
     \/ ~Given(inc) /\ (Given(exc) => ~AnyMatch(RootParts \o entry.rel, exc.pats))

\* lines 399-410: whether the walk keeps an entry
Selects(entry, inc, exc) ==
  /\ entry.is_file
  /\ Given(inc) => AnyMatch(RootParts \o entry.rel, inc.pats)
  /\ Given(exc) => ~AnyMatch(RootParts \o entry.rel, exc.pats)

RECURSIVE JoinPath(_)
\* str(relative_path): the components joined by '/'
JoinPath(rel) ==
  IF Len(rel) = 0 THEN <<>>
  ELSE IF Len(rel) = 1 THEN rel[1]
       ELSE rel[1] \o <<"/">> \o JoinPath(Tail(rel))

RECURSIVE LStrip(_)
\* str.lstrip('/')
LStrip(str) == IF str # <<>> /\ Head(str) = "/" THEN LStrip(Tail(str)) ELSE str

\* line 422: f"{remote_prefix}/{relative_path}".lstrip('/')
RemoteKey(prefix, rel) == LStrip(prefix \o <<"/">> \o JoinPath(rel))

\* lines 385-417: the directory check, results, the walk
UDCall ==
  /\ pc = "idle"
  /\ op' = "upload_directory"
  /\ \E isdir \in BOOLEAN, tree \in DirTrees, prefix \in Prefixes,
        inc \in IncludeInputs, exc \in ExcludeInputs :
       LET Keep(entry) == Selects(entry, inc, exc)
           files == SelectSeq(tree, Keep)
       IN IF isdir
          THEN /\ dir_tree' = tree
               /\ remote_prefix' = prefix
               /\ include_patterns' = inc
               /\ exclude_patterns' = exc
               /\ all_files' = files
               /\ results' = [success |-> 0, failed |-> 0, total |-> Len(files), files |-> <<>>]
               /\ file_idx' = 1
               /\ pc' = "ud_loop"
               /\ outcome' = outcome
          ELSE /\ outcome' = Raised(Exc("Exception", "isdir", "NotADirectoryError"), NoExc)
               /\ pc' = "done"
               /\ UNCHANGED <<dir_tree, remote_prefix, include_patterns, exclude_patterns,
                              all_files, results, file_idx>>
  /\ UNCHANGED <<inputVars, mpVars, ufVars, attempts, storeVars, objects0, calls>>

\* lines 419-429: the next file: its key, and the call of upload_file with
\* show_progress=False; the file may be gone by now
UDUpload ==
  /\ pc = "ud_loop"
  /\ file_idx <= Len(all_files)
  /\ LET file_path == all_files[file_idx]
     IN /\ attempts' = Append(attempts, file_path.rel)
        /\ \E there \in BOOLEAN :
             UFEnter([path |-> file_path.rel, exists |-> there, size |-> 1, content |-> "c1"],
                     RemoteKey(remote_prefix, file_path.rel),
                     [present |-> FALSE, map |-> {}], FALSE, TRUE, "ud_result")
  /\ UNCHANGED <<op, part_size, mpVars, upload_meta, dir_tree, remote_prefix, include_patterns,
                 exclude_patterns, all_files, file_idx, results, storeVars, objects0, calls>>

\* mutant of UDResult: an exception of upload_file is not caught
UDResultReraises ==
  /\ pc = "ud_result"
  /\ IF outcome.kind = "return"
     THEN /\ results' = [results EXCEPT
                           !.success = IF outcome.result.success THEN @ + 1 ELSE @,
                           !.failed = IF outcome.result.success THEN @ ELSE @ + 1,
                           !.files = Append(@, outcome.result)]
          /\ file_idx' = file_idx + 1
          /\ outcome' = NoOutcome
          /\ pc' = "ud_loop"
     ELSE /\ pc' = "done"
          /\ UNCHANGED <<results, file_idx, outcome>>
  /\ UNCHANGED <<op, inputVars, mpVars, ufVars, dir_tree, remote_prefix, include_patterns,
                 exclude_patterns, all_files, attempts, storeVars, objects0, calls>>

\* mutant of UDResult: a failure ends the loop
UDResultStopsOnFailure ==
  /\ pc = "ud_result"
  /\ IF outcome.kind = "return"
     THEN /\ results' = [results EXCEPT
                           !.success = IF outcome.result.success THEN @ + 1 ELSE @,
                           !.failed = IF outcome.result.success THEN @ ELSE @ + 1,
                           !.files = Append(@, outcome.result)]
          /\ file_idx' = IF outcome.result.success THEN file_idx + 1 ELSE Len(all_files) + 1
     ELSE /\ results' = [results EXCEPT
                           !.failed = @ + 1,
                           !.files = Append(@, [success |-> FALSE, error |-> outcome.error,
                                                kind |-> "failure",
                                                local_path |-> local_file.path,
                                                remote_key |-> remote_key])]
          /\ file_idx' = Len(all_files) + 1
  /\ outcome' = NoOutcome
  /\ pc' = "ud_loop"
  /\ UNCHANGED <<op, inputVars, mpVars, ufVars, dir_tree, remote_prefix, include_patterns,
                 exclude_patterns, all_files, attempts, storeVars, objects0, calls>>

\* lines 431-445: upload_file returned a result, which is counted and kept,
\* or raised, which is counted as failed with a synthesized result
UDResult ==
  /\ pc = "ud_result"
  /\ IF outcome.kind = "return"
     THEN results' = [results EXCEPT
                       !.success = IF outcome.result.success THEN @ + 1 ELSE @,
                       !.failed = IF outcome.result.success THEN @ ELSE @ + 1,
                       !.files = Append(@, outcome.result)]
     ELSE results' = [results EXCEPT
                       !.failed = @ + 1,
                       !.files = Append(@, [success |-> FALSE, error |-> outcome.error,
                                            kind |-> "failure",
                                            local_path |-> local_file.path,
                                            remote_key |-> remote_key])]
  /\ file_idx' = file_idx + 1
  /\ outcome' = NoOutcome
  /\ pc' = "ud_loop"
  /\ UNCHANGED <<op, inputVars, mpVars, ufVars, dir_tree, remote_prefix, include_patterns,
                 exclude_patterns, all_files, attempts, storeVars, objects0, calls>>

\* lines 447-448: the loop is over; return results
UDReturn ==
  /\ pc = "ud_loop"
  /\ file_idx > Len(all_files)
  /\ outcome' = Returned(results)
  /\ pc' = "done"
  /\ UNCHANGED <<op, inputVars, mpVars, ufVars, udVars, storeVars, objects0, calls>>

\* ------------------------------------------------------------------ spec
InitialObjects ==
  { EmptyFcn,
    (KeyName :> [size |-> 1, metadata |-> {}, content |-> "c0", via |-> "old"]) }

Init ==
  /\ op = "none"
  /\ pc = "idle"
  /\ overwrite = TRUE
  /\ upload_meta = {}
  /\ dir_tree = <<>>
  /\ remote_prefix = <<>>
  /\ include_patterns = NoPatterns
  /\ exclude_patterns = NoPatterns
  /\ all_files = <<>>
  /\ file_idx = 0
  /\ results = NoBatch
  /\ attempts = <<>>
  /\ local_file = NoFile
  /\ remote_key = <<>>
  /\ part_size = 0
  /\ metadata = [present |-> FALSE, map |-> {}]
  /\ show_progress = FALSE
  /\ upload_id = "-"
  /\ num_parts = 0
  /\ parts = <<>>
  /\ part_num = 0
  /\ pos = 0
  /\ chunk = 0
  /\ progress_bar = FALSE
  /\ progress_n = 0
  /\ e = NoExc
  /\ objects \in InitialObjects
  /\ objects0 = objects
  /\ sessions = EmptyFcn
  /\ calls = <<>>
  /\ outcome = NoOutcome

Next ==
  \/ MPCall
  \/ MPCreate
  \/ MPSetup
  \/ MPOpen
  \/ MPRead
  \/ MPUploadPart
  \/ MPUpdate
  \/ MPComplete
  \/ MPClose
  \/ MPAbort
  \/ UFCall
  \/ UFProbe
  \/ UFHash
  \/ UFTransfer
  \/ UFReprobe

Spec == Init /\ [][Next]_vars

\* one call of upload_directory, with the calls of upload_file it makes
NextDir ==
  \/ UDCall
  \/ UDUpload
  \/ UFHash
  \/ UFTransfer
  \/ UFReprobe
  \/ UDResult
  \/ UDReturn

SpecDir == Init /\ [][NextDir]_vars

\* ------------------------------------------------- multipart properties
Creates == Succeeded("create_multipart_upload")
Completes == Issued("complete_multipart_upload")
Aborts == Issued("abort_multipart_upload")
PartCalls == Issued("upload_part")
Done == pc = "done" /\ op = "upload_multipart"

\* ceil(S / P) for P >= 1, by its defining property
CeilDiv(S, P) == CHOOSE n \in 0..S : n * P >= S /\ (n = 0 \/ (n - 1) * P < S)

\* C1: when upload_multipart has returned or raised and its
\* create_multipart_upload succeeded, a complete_multipart_upload or an
\* abort_multipart_upload carrying that upload id has been issued.
NoOrphanedSession ==
  Done => \A c \in Creates :
            \E i \in Completes \cup Aborts : calls[i].UploadId = calls[c].UploadId

\* C2: the number of complete_multipart_upload calls plus the number of
\* abort_multipart_upload calls of a session is at most 1.
AtMostOneFinalizeOrAbort ==
  \A c \in Creates :
    Cardinality({i \in Completes \cup Aborts : calls[i].UploadId = calls[c].UploadId}) <= 1

\* C3: if upload_part failed for part k, then no complete_multipart_upload
\* is issued, no upload_part for a part number above k is issued, at most one
\* abort_multipart_upload is issued, and exactly one, carrying the session's
\* upload id, has been issued when the call ends.
PartFailureAbortsOnce ==
  \A f \in Failed("upload_part") :
    /\ Completes = {}
    /\ \A i \in PartCalls : calls[i].PartNumber <= calls[f].PartNumber
    /\ Cardinality(Aborts) <= 1
    /\ \A i \in Aborts : calls[i].UploadId = calls[f].UploadId /\ i > f
    /\ Done => Cardinality(Aborts) = 1

\* C3 witness: part 2 of 3 failed and the call has ended.
PartTwoOfThreeFailed ==
  /\ Done
  /\ num_parts = 3
  /\ \E f \in Failed("upload_part") : calls[f].PartNumber = 2

\* C4: every complete_multipart_upload carries a parts list whose part
\* numbers are 1, 2, ..., N in this order, N = ceil(file size / part size),
\* each entry with the completion token upload_part returned for that number.
CompletePartsExact ==
  \A i \in Completes :
    LET pl == calls[i].Parts
        N == CeilDiv(local_file.size, part_size)
    IN /\ part_size >= 1
       /\ Len(pl) = N
       /\ \A k \in 1..Len(pl) :
            /\ pl[k].PartNumber = k
            /\ \E j \in Succeeded("upload_part") :
                 /\ j < i
                 /\ calls[j].PartNumber = k
                 /\ calls[j].UploadId = calls[i].UploadId
                 /\ calls[j].ETag = pl[k].ETag

\* C4 witness: a file of 5 bytes with part size 2 is finalized with 3 parts.
CompleteWithThreeParts ==
  /\ local_file.size = 5
  /\ part_size = 2
  /\ \E i \in Completes : Len(calls[i].Parts) = 3

\* C5: a successful upload_multipart of a file no larger than the part size
\* (sizes 0 to part size) uploads exactly one part, numbered 1, and
\* finalizes with a parts list holding exactly that part.
SmallFileSinglePart ==
  (Done /\ outcome.kind = "return" /\ outcome.result.success
     /\ local_file.size <= part_size)
  => /\ Cardinality(PartCalls) = 1
     /\ \A i \in PartCalls : calls[i].PartNumber = 1
     /\ \A i \in Completes :
          Len(calls[i].Parts) = 1 /\ calls[i].Parts[1].PartNumber = 1

\* the call whose failure entered the inner handler was a remote
\* upload_part or complete_multipart_upload
RemoteTransferFailed == e.at \in {"upload_part", "complete_multipart_upload"}

\* C6 as stated: after a remote error on upload_part or on complete, the
\* abort is attempted and the original error is raised to the caller, not
\* turned into a returned result.
RemoteErrorReRaised ==
  (Done /\ RemoteTransferFailed)
  => /\ Aborts # {}
     /\ outcome.kind = "raise"
     /\ outcome.error = e

\* C6 amended: after a remote error on upload_part or on complete, exactly
\* one abort is issued; the error that leaves the inner handler is the
\* original error if the abort succeeded and the abort's error if it failed;
\* if that error is a ClientError the call returns a failure result
\* (success = false) describing it, otherwise the call raises it.
RemoteErrorOutcome ==
  (Done /\ RemoteTransferFailed)
  => /\ Cardinality(Aborts) = 1
     /\ \A a \in Aborts :
          LET x == IF calls[a].res = "ok" THEN e
                   ELSE Exc(calls[a].res, "abort_multipart_upload", "500")
          IN IF x.cls = "ClientError"
             THEN /\ outcome.kind = "return"
                  /\ ~outcome.result.success
                  /\ outcome.result.error = x
             ELSE /\ outcome.kind = "raise"
                  /\ outcome.error = x

\* C6 witness: a ClientError of upload_part, a successful abort, and a
\* returned failure result.
PartClientErrorReturned ==
  /\ Done
  /\ e.at = "upload_part" /\ e.cls = "ClientError"
  /\ \E a \in Aborts : calls[a].res = "ok"
  /\ outcome.kind = "return"

\* C7: when a part transfer or the finalization failed and the abort failed
\* too, the error the call reports (raised, chained as its context, or
\* described in the returned result) is still the original error.
AbortFailureKeepsPrimary ==
  (Done /\ RemoteTransferFailed /\ Failed("abort_multipart_upload") # {})
  => \/ outcome.kind = "raise" /\ (outcome.error = e \/ outcome.context = e)
     \/ outcome.kind = "return" /\ outcome.result.error = e

\* ----------------------------------------------- upload_file properties
UFDone == pc = "done" /\ op = "upload_file"
Transfers == Issued("upload_file")
\* a head_object issued before any transfer is the existence probe
IsProbe(i) == calls[i].op = "head_object" /\ \A j \in 1..(i - 1) : calls[j].op # "upload_file"
\* the remote call that failed; a 404 of the existence probe is the
\* answer "absent", not a failure
RemoteFailure(i) ==
  /\ i \in DOMAIN calls
  /\ calls[i].res # "ok"
  /\ ~(IsProbe(i) /\ calls[i].Code = "404")
FailureResult ==
  outcome.kind = "return" /\ ~outcome.result.success /\ outcome.result.error # NoExc

\* C8 as stated: after a remote error of the existence probe, the transfer
\* or the re-probe, upload_file returns a result with success = false and an
\* error description; it does not raise.
UploadFileNeverRaisesRemote ==
  (UFDone /\ \E i \in DOMAIN calls : RemoteFailure(i)) => FailureResult

\* C8 amended: upload_file returns a failure result (success = false with
\* the error) exactly for a ClientError of the transfer or of the re-probe;
\* a ClientError other than 404 of the existence probe, and a remote failure
\* of any call that is not a ClientError, is raised to the caller.
UploadFileRemoteErrorOutcome ==
  UFDone => \A i \in DOMAIN calls :
    RemoteFailure(i) =>
      IF ~IsProbe(i) /\ calls[i].res = "ClientError"
      THEN /\ FailureResult
           /\ outcome.result.error = Exc("ClientError", calls[i].op, calls[i].Code)
      ELSE /\ outcome.kind = "raise"
           /\ outcome.error = Exc(calls[i].res, calls[i].op, calls[i].Code)

\* C8 witness: the transfer raised a ClientError and upload_file returned a
\* failure result.
TransferClientErrorReturned ==
  /\ UFDone
  /\ \E i \in Failed("upload_file") : calls[i].res = "ClientError"
  /\ FailureResult

\* C9: with overwrite disallowed and a probe that found an object at the
\* key, upload_file raises FileExistsError (no result object), issues no
\* transfer, and leaves the store's objects as they were.
ExistingObjectBlocksUpload ==
  (UFDone /\ ~overwrite /\ \E i \in Succeeded("head_object") : IsProbe(i))
  => /\ outcome.kind = "raise"
     /\ outcome.error.code = "FileExistsError"
     /\ Transfers = {}
     /\ objects = objects0

\* C9 witness: the probe found the object and the call has ended.
ProbeFoundObject ==
  /\ UFDone
  /\ ~overwrite
  /\ remote_key \in DOMAIN objects0
  /\ Len(calls) = 1 /\ calls[1].op = "head_object" /\ calls[1].res = "ok"

\* ------------------------------------------ upload_directory properties
UDDone == pc = "done" /\ op = "upload_directory"

\* C10: when upload_directory ends for a directory, it returns; with N the
\* number of selected files, upload_file was attempted exactly once per
\* file, in order; the batch has total = N and one entry per file in that
\* order; succeeded + failed = total; and succeeded is the number of uploads
\* that ended with a confirmed object, failed the number of the others.
BatchCoversEveryFile ==
  UDDone =>
    \/ outcome.kind = "raise" /\ outcome.error.code = "NotADirectoryError" /\ attempts = <<>>
    \/ /\ outcome.kind = "return"
       /\ LET r == outcome.result
              N == Len(all_files)
          IN /\ r.total = N
             /\ Len(attempts) = N
             /\ \A i \in 1..N : attempts[i] = all_files[i].rel
             /\ Len(r.files) = N
             /\ \A i \in 1..N : r.files[i].local_path = all_files[i].rel
             /\ r.success + r.failed = r.total
             /\ r.success = Cardinality(Succeeded("head_object"))
             /\ r.success = Cardinality({i \in 1..N : r.files[i].success})
             /\ r.failed = Cardinality({i \in 1..N : ~r.files[i].success})

\* C10 witness: of 3 files the second failed; the first and third were
\* uploaded.
SecondOfThreeFailed ==
  /\ UDDone
  /\ outcome.kind = "return"
  /\ outcome.result.total = 3
  /\ outcome.result.failed = 1
  /\ Len(outcome.result.files) = 3
  /\ outcome.result.files[1].success
  /\ ~outcome.result.files[2].success
  /\ outcome.result.files[3].success

\* the walk of upload_directory is over
Walked == op = "upload_directory" /\ file_idx >= 1
InAllFiles(entry) == \E j \in DOMAIN all_files : all_files[j] = entry
MatchesSome(entry, ps) ==
  \E i \in DOMAIN ps.pats : PathMatch(RootParts \o entry.rel, ps.pats[i])

\* C11: an entry of the tree is selected for upload if and only if it is a
\* regular file, no include pattern is given or it matches at least one, and
\* it matches no exclude pattern (exclude wins when both match); only
\* selected files are handed to upload_file.
SelectedIffIncludedNotExcluded ==
  Walked =>
    /\ \A i \in DOMAIN dir_tree :
         InAllFiles(dir_tree[i]) <=>
           /\ dir_tree[i].is_file
           /\ include_patterns.pats = <<>> \/ MatchesSome(dir_tree[i], include_patterns)
           /\ ~MatchesSome(dir_tree[i], exclude_patterns)
    /\ \A j \in DOMAIN all_files : \E i \in DOMAIN dir_tree : dir_tree[i] = all_files[j]
    /\ \A k \in DOMAIN attempts : \E j \in DOMAIN all_files : all_files[j].rel = attempts[k]

\* C11 witness: include ["*.txt"], exclude ["*.tmp"] over a.txt, b.tmp,
\* d/b.txt.tmp, c.jpg: the call has ended and only a.txt was handed to
\* upload_file; and a file matching both lists (b.tmp with include "b*")
\* is covered by the exclude input.
OnlyATxtUploaded ==
  /\ UDDone
  /\ dir_tree = Universe
  /\ include_patterns.pats = <<STAR_TXT>>
  /\ exclude_patterns.pats = <<STAR_TMP>>
  /\ all_files = << Universe[1] >>
  /\ attempts = << <<A_TXT>> >>

\* C12: upload_directory raises only when the root is not a directory, and
\* then no remote call was issued; once the root is a directory it returns,
\* and every upload_file call that raised or returned a failure result is
\* turned into one more failed entry of the batch, carrying that error, and
\* the loop goes on.
DirectoryRaisesOnlyForPrecondition ==
  /\ [](UDDone =>
          IF file_idx = 0
          THEN /\ outcome.kind = "raise"
               /\ outcome.error.code = "NotADirectoryError"
               /\ calls = <<>>
          ELSE outcome.kind = "return")
  /\ [][(pc = "ud_result" /\ (outcome.kind = "raise" \/ ~outcome.result.success))
        => /\ pc' = "ud_loop"
           /\ results'.failed = results.failed + 1
           /\ results'.success = results.success
           /\ Len(results'.files) = Len(results.files) + 1
           /\ LET r == results'.files[Len(results'.files)]
              IN /\ ~r.success
                 /\ r.error = IF outcome.kind = "raise" THEN outcome.error
                               ELSE outcome.result.error]_vars

\* C12 witness: an upload_file call raised (the file was gone) and a later
\* one failed with a ClientError; upload_directory returned both as failed
\* entries.
RaisedUploadRecorded ==
  /\ UDDone
  /\ outcome.kind = "return"
  /\ \E i \in DOMAIN outcome.result.files :
       /\ outcome.result.files[i].error.code = "FileNotFoundError"
       /\ \E j \in DOMAIN outcome.result.files :
            j > i /\ outcome.result.files[j].error.cls = "ClientError"

\* the entries of a metadata mapping under the reserved key
HashEntries(md) == {kv \in md : kv[1] = "file-hash"}
UFSucceeded == UFDone /\ outcome.kind = "return" /\ outcome.result.success

\* C13: after upload_file succeeded, whatever metadata the caller passed,
\* the metadata of the object at the key has exactly one 'file-hash' entry,
\* the MD5 digest of the local file, and so has the metadata in the result.
DigestRoundTrip ==
  UFSucceeded =>
    /\ remote_key \in DOMAIN objects
    /\ HashEntries(objects[remote_key].metadata) = {<<"file-hash", Md5(local_file.content)>>}
    /\ HashEntries(outcome.result.metadata) = {<<"file-hash", Md5(local_file.content)>>}
    /\ \A kv \in metadata.map : kv[1] # "file-hash" => kv \in objects[remote_key].metadata

\* C13 witness: upload_file succeeded for a caller whose metadata already
\* held another value under 'file-hash'.
StaleHashReplaced ==
  /\ UFSucceeded
  /\ <<"file-hash", "stale">> \in metadata.map
  /\ local_file.content = "c2"

\* the attributes the two uploads are compared on: size and content digest
Attributes(obj) == [size |-> obj.size, digest |-> HashEntries(obj.metadata)]
MPSucceeded == Done /\ outcome.kind = "return" /\ outcome.result.success

\* C14: for a file no larger than the part size, the object a successful
\* upload_multipart leaves at the key has the size and the content digest
\* of the object a successful upload_file of the same file, with the same
\* metadata, leaves there.
MultipartMatchesSingleShot ==
  (MPSucceeded /\ local_file.size <= part_size)
  => /\ remote_key \in DOMAIN objects
     /\ Attributes(objects[remote_key])
          = Attributes(PutObject(local_file,
                                 WithFileHash(metadata, Md5(local_file.content))))

\* the progress-reporting steps: progress_bar.update and progress_bar.close
ProgressSteps == {"update", "close"}

\* C15: progress reporting does not alter the outcome: a failing update or
\* close never enters the error handler and never becomes the error raised,
\* and once every remote call up to and including complete has succeeded
\* the call returns success and issues no further remote call, as it does
\* with progress reporting disabled.
ProgressDoesNotAlterOutcome ==
  /\ e.at \notin ProgressSteps
  /\ outcome.error.at \notin ProgressSteps
  /\ outcome.context.at \notin ProgressSteps
  /\ (Done /\ Succeeded("complete_multipart_upload") # {})
     => (MPSucceeded /\ Issued("abort_multipart_upload") = {})

\* C16: the remote calls of one upload_multipart are create, upload_part 1,
\* ..., upload_part N, complete, in that order: a part is issued directly
\* after its predecessor returned its completion token (so no two part
\* transfers overlap), and complete is issued only after all N parts
\* succeeded.
StrictCallOrder ==
  op = "upload_multipart" =>
    \A i \in DOMAIN calls :
      /\ (i = 1) <=> (calls[i].op = "create_multipart_upload")
      /\ calls[i].op = "upload_part" =>
            /\ calls[i].PartNumber = i - 1
            /\ calls[i].PartNumber \in 1..num_parts
            /\ calls[i - 1].res = "ok"
            /\ i > 2 => /\ calls[i - 1].op = "upload_part"
                        /\ calls[i - 1].ETag \in ETags
      /\ calls[i].op = "complete_multipart_upload" =>
            /\ i = num_parts + 2
            /\ \A k \in 1..num_parts :
                  /\ calls[k + 1].op = "upload_part"
                  /\ calls[k + 1].PartNumber = k
                  /\ calls[k + 1].res = "ok"
\* a two-part upload ran to its end: create, part 1, part 2, complete
TwoPartsThenComplete ==
  /\ MPSucceeded
  /\ num_parts = 2
  /\ Len(calls) = 4
  /\ calls[4].op = "complete_multipart_upload"

RECURSIVE BodySum(_)
\* bytes carried by the first n calls of the log
BodySum(n) == IF n = 0 THEN 0 ELSE calls[n].Body + BodySum(n - 1)

\* C17: for a file of S >= 1 bytes and a part size P >= 1, with
\* N = ceil(S / P): parts 1..N-1 carry P bytes each, part N carries
\* S - (N-1)*P bytes (between 1 and P), and when all parts are sent the
\* bytes carried sum to S, the assembled object has S bytes and the
\* progress bar has been advanced by S in total.
PartSizesSumToFileSize ==
  (op = "upload_multipart" /\ local_file.exists /\ local_file.size >= 1 /\ part_size >= 1) =>
    LET S == local_file.size
        P == part_size
        N == CeilDiv(S, P)
    IN /\ \A i \in PartCalls :
            /\ calls[i].PartNumber \in 1..N
            /\ calls[i].PartNumber < N => calls[i].Body = P
            /\ calls[i].PartNumber = N =>
                  /\ calls[i].Body = S - (N - 1) * P
                  /\ calls[i].Body \in 1..P
       /\ pc \in {"mp_complete", "mp_close"} =>
            /\ BodySum(Len(calls)) = S
            /\ progress_bar => progress_n = S
       /\ Completes # {} => BodySum(Len(calls)) = S
       /\ Succeeded("complete_multipart_upload") # {} =>
            /\ remote_key \in DOMAIN objects
            /\ objects[remote_key].size = S
\* S = 5, P = 2: parts of 2, 2 and 1 bytes were sent and reported
PartsTwoTwoOne ==
  /\ op = "upload_multipart" /\ pc = "mp_complete"
  /\ local_file.size = 5 /\ part_size = 2
  /\ [i \in 2..4 |-> calls[i].Body] = (2 :> 2) @@ (3 :> 2) @@ (4 :> 1)
  /\ progress_bar /\ progress_n = 5

\* the prefix without a '/' at its end
WithoutTrailingSlash(str) ==
  IF str # <<>> /\ str[Len(str)] = "/" THEN SubSeq(str, 1, Len(str) - 1) ELSE str

\* C18: the key upload_directory hands to upload_file never begins with
\* '/', equals the relative path when the prefix is empty, and otherwise is
\* the prefix and the relative path separated by exactly one '/', whether
\* or not the prefix ends in '/'.
KeyJoinsWithOneSlash ==
  (op = "upload_directory" /\ pc \in {"uf_hash", "uf_transfer", "uf_reprobe", "ud_result"}) =>
    LET rel == JoinPath(all_files[file_idx].rel)
    IN /\ remote_key # <<>> /\ Head(remote_key) # "/"
       /\ remote_prefix = <<>> => remote_key = rel
       /\ remote_prefix # <<>> =>
            remote_key = WithoutTrailingSlash(remote_prefix) \o <<"/">> \o rel

\* --------------------------------------------- concurrent upload_multipart
\* Several uploader instances run upload_multipart against one bucket, on
\* the same key, their remote calls interleaved. Every local variable of
\* upload_multipart is held once per uploader (a function over Uploaders);
\* the store (objects, sessions), empty at first, and the log of remote
\* calls are shared.
\* Each step is one remote call together with the local code that follows
\* it up to the next remote call. The files exist, part_size is 1 and
\* show_progress is False.
MaxConcFileSize == 2

Uploaders == {"A", "B"}
ConcFiles ==
  {[path |-> FilePath, exists |-> TRUE, size |-> sz, content |-> "c1"] :
     sz \in 1..MaxConcFileSize}

\* a record of the remote log, tagged with the uploader that issued it
CallBy(u, m, id, part, plist, res, etag, body) ==
  [by |-> u, op |-> m, Key |-> KeyName, UploadId |-> id, PartNumber |-> part,
   Parts |-> plist, res |-> res, Code |-> "-", ETag |-> etag, Body |-> body]

\* lines 354-362, for uploader u
COuterExcept(u, x, ctx) ==
  IF x.cls = "ClientError"
  THEN Returned([success |-> FALSE, error |-> x, kind |-> "failure",
                 local_path |-> local_file[u].path, remote_key |-> KeyName])
  ELSE Raised(x, ctx)

\* the loop head of uploader u, for the value n of part_num
CLoopHead(u, n, np) == IF n <= np THEN "mp_upload_part" ELSE "mp_complete"

concIdle == <<remote_key, metadata, show_progress, overwrite, upload_meta, chunk,
              progress_bar, progress_n, udVars, objects0>>

InitConc ==
  /\ op = [u \in Uploaders |-> "none"]
  /\ pc = [u \in Uploaders |-> "idle"]
  /\ local_file = [u \in Uploaders |-> NoFile]
  /\ part_size = [u \in Uploaders |-> 0]
  /\ upload_id = [u \in Uploaders |-> "-"]
  /\ num_parts = [u \in Uploaders |-> 0]
  /\ parts = [u \in Uploaders |-> <<>>]
  /\ part_num = [u \in Uploaders |-> 0]
  /\ pos = [u \in Uploaders |-> 0]
  /\ e = [u \in Uploaders |-> NoExc]
  /\ outcome = [u \in Uploaders |-> NoOutcome]
  /\ overwrite = [u \in Uploaders |-> TRUE]
  /\ upload_meta = [u \in Uploaders |-> {}]
  /\ remote_key = KeyName
  /\ metadata = [present |-> FALSE, map |-> {}]
  /\ show_progress = FALSE
  /\ chunk = 0
  /\ progress_bar = FALSE
  /\ progress_n = 0
  /\ dir_tree = <<>>
  /\ remote_prefix = <<>>
  /\ include_patterns = NoPatterns
  /\ exclude_patterns = NoPatterns
  /\ all_files = <<>>
  /\ file_idx = 0
  /\ results = NoBatch
  /\ attempts = <<>>
  /\ objects = EmptyFcn
  /\ objects0 = objects
  /\ sessions = EmptyFcn
  /\ calls = <<>>

\* lines 255-275: uploader u enters upload_multipart
CMPCall(u) ==
  /\ pc[u] = "idle"
  /\ \E f \in ConcFiles :
       /\ local_file' = [local_file EXCEPT ![u] = f]
       /\ part_size' = [part_size EXCEPT ![u] = 1]
  /\ op' = [op EXCEPT ![u] = "upload_multipart"]
  /\ pc' = [pc EXCEPT ![u] = "mp_create"]
  /\ UNCHANGED <<upload_id, num_parts, parts, part_num, pos, e, outcome, storeVars, calls,
                 concIdle>>

\* what create_multipart_upload does for uploader u when it succeeds with id
CreateSession(u, id) ==
  /\ sessions' = (id :> [key |-> KeyName, status |-> "open", metadata |-> {},
                         uploaded |-> EmptyFcn]) @@ sessions
  /\ calls' = Append(calls, CallBy(u, "create_multipart_upload", id, 0, <<>>, "ok", "-", 0))
  /\ num_parts' = [num_parts EXCEPT ![u] = NumParts(local_file[u].size, part_size[u])]
  /\ parts' = [parts EXCEPT ![u] = <<>>]
  /\ part_num' = [part_num EXCEPT ![u] = 1]
  /\ pos' = [pos EXCEPT ![u] = 0]
  /\ pc' = [pc EXCEPT ![u] = CLoopHead(u, 1, num_parts'[u])]
  /\ UNCHANGED outcome

\* mutant of CMPCreate: the upload id is kept in state all uploaders share
CMPCreateShared(u) ==
  /\ pc[u] = "mp_create"
  /\ \/ \E id \in UploadIds \ DOMAIN sessions :
          /\ upload_id' = [v \in Uploaders |-> id]
          /\ CreateSession(u, id)
     \/ \E x \in RemoteFailures("create_multipart_upload") :
          /\ calls' = Append(calls, CallBy(u, "create_multipart_upload", "-", 0, <<>>, x.cls, "-", 0))
          /\ outcome' = [outcome EXCEPT ![u] = COuterExcept(u, x, NoExc)]
          /\ pc' = [pc EXCEPT ![u] = "done"]
          /\ UNCHANGED <<upload_id, sessions, num_parts, parts, part_num, pos>>
  /\ UNCHANGED <<op, local_file, part_size, e, objects, concIdle>>

\* lines 279-298: create_multipart_upload, whose id the store makes unique,
\* then num_parts, parts = [], open, the loop head
CMPCreate(u) ==
  /\ pc[u] = "mp_create"
  /\ \/ \E id \in UploadIds \ DOMAIN sessions :
          /\ upload_id' = [upload_id EXCEPT ![u] = id]
          /\ CreateSession(u, id)
     \/ \E x \in RemoteFailures("create_multipart_upload") :
          /\ calls' = Append(calls, CallBy(u, "create_multipart_upload", "-", 0, <<>>, x.cls, "-", 0))
          /\ outcome' = [outcome EXCEPT ![u] = COuterExcept(u, x, NoExc)]
          /\ pc' = [pc EXCEPT ![u] = "done"]
          /\ UNCHANGED <<upload_id, sessions, num_parts, parts, part_num, pos>>
  /\ UNCHANGED <<op, local_file, part_size, e, objects, concIdle>>

\* lines 301-318: read a chunk, upload_part with this call's upload_id,
\* parts.append, the next iteration; the store accepts a part only for an
\* open session
CMPUploadPart(u) ==
  /\ pc[u] = "mp_upload_part"
  /\ LET len == Min(part_size[u], local_file[u].size - pos[u])
         id == upload_id[u]
         n == part_num[u]
     IN \/ \E t \in ETags :
             /\ sessions[id].status = "open"
             /\ calls' = Append(calls, CallBy(u, "upload_part", id, n, <<>>, "ok", t, len))
             /\ parts' = [parts EXCEPT ![u] = Append(@, [ETag |-> t, PartNumber |-> n])]
             /\ sessions' = [sessions EXCEPT ![id].uploaded =
                               (n :> [etag |-> t, size |-> len]) @@ @]
             /\ pos' = [pos EXCEPT ![u] = @ + len]
             /\ part_num' = [part_num EXCEPT ![u] = n + 1]
             /\ pc' = [pc EXCEPT ![u] = CLoopHead(u, n + 1, num_parts[u])]
             /\ UNCHANGED e
        \/ \E x \in RemoteFailures("upload_part") :
             /\ calls' = Append(calls, CallBy(u, "upload_part", id, n, <<>>, x.cls, "-", len))
             /\ e' = [e EXCEPT ![u] = x]
             /\ pc' = [pc EXCEPT ![u] = "mp_abort"]
             /\ UNCHANGED <<parts, sessions, pos, part_num>>
  /\ UNCHANGED <<op, local_file, part_size, upload_id, num_parts, outcome, objects, concIdle>>

\* lines 321-343: complete_multipart_upload with this call's parts, the
\* result, return
CMPComplete(u) ==
  /\ pc[u] = "mp_complete"
  /\ LET id == upload_id[u]
     IN \/ /\ sessions[id].status = "open"
           /\ calls' = Append(calls, CallBy(u, "complete_multipart_upload", id, 0, parts[u],
                                            "ok", "-", 0))
           /\ sessions' = [sessions EXCEPT ![id].status = "completed"]
           /\ objects' = (KeyName :> [size |-> SumSizes(parts[u], sessions[id].uploaded),
                                      metadata |-> sessions[id].metadata,
                                      content |-> local_file[u].content,
                                      via |-> "multipart"]) @@ objects
           /\ outcome' = [outcome EXCEPT ![u] =
                            Returned([success |-> TRUE, error |-> NoExc, kind |-> "multipart",
                                      local_path |-> local_file[u].path,
                                      remote_key |-> KeyName,
                                      file_size |-> local_file[u].size,
                                      parts_count |-> num_parts[u]])]
           /\ pc' = [pc EXCEPT ![u] = "done"]
           /\ UNCHANGED e
        \/ \E x \in RemoteFailures("complete_multipart_upload") :
             /\ calls' = Append(calls, CallBy(u, "complete_multipart_upload", id, 0, parts[u],
                                              x.cls, "-", 0))
             /\ e' = [e EXCEPT ![u] = x]
             /\ pc' = [pc EXCEPT ![u] = "mp_abort"]
             /\ UNCHANGED <<sessions, objects, outcome>>
  /\ UNCHANGED <<op, local_file, part_size, upload_id, num_parts, parts, part_num, pos, concIdle>>

\* lines 345-362: abort_multipart_upload with this call's upload_id, then
\* `raise e` into the outer handler
CMPAbort(u) ==
  /\ pc[u] = "mp_abort"
  /\ LET id == upload_id[u]
     IN \/ /\ calls' = Append(calls, CallBy(u, "abort_multipart_upload", id, 0, <<>>, "ok", "-", 0))
           /\ sessions' = [sessions EXCEPT ![id].status = "aborted"]
           /\ outcome' = [outcome EXCEPT ![u] = COuterExcept(u, e[u], NoExc)]
        \/ \E x \in RemoteFailures("abort_multipart_upload") :
             /\ calls' = Append(calls, CallBy(u, "abort_multipart_upload", id, 0, <<>>, x.cls, "-", 0))
             /\ outcome' = [outcome EXCEPT ![u] = COuterExcept(u, x, e[u])]
             /\ UNCHANGED sessions
  /\ pc' = [pc EXCEPT ![u] = "done"]
  /\ UNCHANGED <<op, local_file, part_size, upload_id, num_parts, parts, part_num, pos, e,
                 objects, concIdle>>

NextConcMP ==
  \/ \E u \in Uploaders : CMPCall(u)
  \/ \E u \in Uploaders : CMPCreate(u)
  \/ \E u \in Uploaders : CMPUploadPart(u)
  \/ \E u \in Uploaders : CMPComplete(u)
  \/ \E u \in Uploaders : CMPAbort(u)

SpecConcMP == InitConc /\ [][NextConcMP]_vars

\* C19 helpers
OwnId(u) == {calls[i].UploadId : i \in {j \in DOMAIN calls :
                /\ calls[j].by = u
                /\ calls[j].op = "create_multipart_upload"
                /\ calls[j].res = "ok"}}

\* C19: with several upload_multipart calls interleaved on one key, every
\* upload_part, complete and abort of a call carries the upload id its own
\* create_multipart_upload returned; a session is aborted or completed
\* only by the call that created it; and every entry of a finalize list is
\* the token of a part that same call uploaded.
SessionIsolation ==
  /\ \A i \in DOMAIN calls :
       LET c == calls[i]
       IN c.op # "create_multipart_upload" =>
            /\ OwnId(c.by) = {c.UploadId}
            /\ \A k \in DOMAIN c.Parts :
                  \E j \in 1..(i - 1) :
                    /\ calls[j].by = c.by
                    /\ calls[j].op = "upload_part"
                    /\ calls[j].res = "ok"
                    /\ calls[j].PartNumber = c.Parts[k].PartNumber
                    /\ calls[j].ETag = c.Parts[k].ETag
  /\ \A u, v \in Uploaders : (u # v /\ upload_id[u] # "-") => upload_id[u] # upload_id[v]
  /\ \A u \in Uploaders :
       (pc[u] = "done" /\ outcome[u].kind = "return" /\ outcome[u].result.success)
         => sessions[upload_id[u]].status = "completed"
\* A fails and aborts between B's part and B's complete; B still succeeds
AbortBesideSuccess ==
  /\ pc["A"] = "done" /\ pc["B"] = "done"
  /\ outcome["A"].kind = "raise"
  /\ upload_id["A"] \in DOMAIN sessions /\ upload_id["B"] \in DOMAIN sessions
  /\ sessions[upload_id["A"]].status = "aborted"
  /\ outcome["B"].kind = "return" /\ outcome["B"].result.success
  /\ sessions[upload_id["B"]].status = "completed"
  /\ \E i, j, k \in DOMAIN calls :
       /\ i < j /\ j < k
       /\ calls[i].by = "B" /\ calls[i].op = "upload_part"
       /\ calls[j].by = "A" /\ calls[j].op = "abort_multipart_upload" /\ calls[j].res = "ok"
       /\ calls[k].by = "B" /\ calls[k].op = "complete_multipart_upload"

\* ---------------------------------------------------- concurrent upload_file
\* Several uploader instances run upload_file against one bucket, on the
\* same key, absent at first. The files exist and hold one byte, metadata is
\* None and show_progress is False; each uploader has its own content and
\* its own overwrite flag.
ContentOf(u) == IF u = "A" THEN "c1" ELSE "c2"

\* lines 222-230, for uploader u
CUFExcept(u, x) ==
  IF x.cls = "ClientError"
  THEN Returned([success |-> FALSE, error |-> x, kind |-> "failure",
                 local_path |-> local_file[u].path, remote_key |-> KeyName])
  ELSE Raised(x, NoExc)

concUFIdle == <<remote_key, metadata, show_progress, chunk, progress_bar, progress_n, udVars,
                objects0, part_size, upload_id, num_parts, parts, part_num, pos, e, sessions>>

\* lines 137-147 (and 158-176 when overwrite is allowed): uploader u enters
\* upload_file
CUFCall(u) ==
  /\ pc[u] = "idle"
  /\ op' = [op EXCEPT ![u] = "upload_file"]
  /\ local_file' = [local_file EXCEPT ![u] =
                      [path |-> FilePath, exists |-> TRUE, size |-> 1, content |-> ContentOf(u)]]
  /\ \E ow \in BOOLEAN :
       /\ overwrite' = [overwrite EXCEPT ![u] = ow]
       /\ pc' = [pc EXCEPT ![u] = IF ow THEN "uf_transfer" ELSE "uf_probe"]
  /\ upload_meta' = [upload_meta EXCEPT ![u] = WithFileHash(metadata, Md5(ContentOf(u)))]
  /\ UNCHANGED <<outcome, objects, calls, concUFIdle>>

\* lines 149-176: the existence probe, then upload_kwargs and the file hash
CUFProbe(u) ==
  /\ pc[u] = "uf_probe"
  /\ \/ /\ KeyName \in DOMAIN objects
        /\ calls' = Append(calls, CallBy(u, "head_object", "-", 0, <<>>, "ok", "-", 0))
        /\ outcome' = [outcome EXCEPT ![u] =
                         Raised(Exc("Exception", "head_object", "FileExistsError"), NoExc)]
        /\ pc' = [pc EXCEPT ![u] = "done"]
     \/ /\ KeyName \notin DOMAIN objects
        /\ calls' = Append(calls, [CallBy(u, "head_object", "-", 0, <<>>, "ClientError", "-", 0)
                                     EXCEPT !.Code = "404"])
        /\ pc' = [pc EXCEPT ![u] = "uf_transfer"]
        /\ UNCHANGED outcome
     \/ \E x \in {Exc("ClientError", "head_object", "403"), Exc("Exception", "head_object", "500")} :
          /\ calls' = Append(calls, [CallBy(u, "head_object", "-", 0, <<>>, x.cls, "-", 0)
                                       EXCEPT !.Code = x.code])
          /\ outcome' = [outcome EXCEPT ![u] = Raised(x, NoExc)]
          /\ pc' = [pc EXCEPT ![u] = "done"]
  /\ UNCHANGED <<op, local_file, overwrite, upload_meta, objects, concUFIdle>>

\* lines 178-202: s3_client.upload_file
CUFTransfer(u) ==
  /\ pc[u] = "uf_transfer"
  /\ \/ /\ calls' = Append(calls, CallBy(u, "upload_file", "-", 0, <<>>, "ok", "-", 0))
        /\ objects' = (KeyName :> PutObject(local_file[u], upload_meta[u])) @@ objects
        /\ pc' = [pc EXCEPT ![u] = "uf_reprobe"]
        /\ UNCHANGED outcome
     \/ \E x \in RemoteFailures("upload_file") :
          /\ calls' = Append(calls, [CallBy(u, "upload_file", "-", 0, <<>>, x.cls, "-", 0)
                                       EXCEPT !.Code = x.code])
          /\ outcome' = [outcome EXCEPT ![u] = CUFExcept(u, x)]
          /\ pc' = [pc EXCEPT ![u] = "done"]
          /\ UNCHANGED objects
  /\ UNCHANGED <<op, local_file, overwrite, upload_meta, concUFIdle>>

\* lines 204-220: head_object after the transfer, the result, return
CUFReprobe(u) ==
  /\ pc[u] = "uf_reprobe"
  /\ \/ /\ KeyName \in DOMAIN objects
        /\ calls' = Append(calls, CallBy(u, "head_object", "-", 0, <<>>, "ok", "-", 0))
        /\ outcome' = [outcome EXCEPT ![u] =
                         Returned([success |-> TRUE, error |-> NoExc, kind |-> "single",
                                   local_path |-> local_file[u].path,
                                   remote_key |-> KeyName, file_size |-> local_file[u].size,
                                   metadata |-> objects[KeyName].metadata])]
     \/ \E x \in {Exc("ClientError", "head_object", "403"), Exc("Exception", "head_object", "500")} :
          /\ calls' = Append(calls, [CallBy(u, "head_object", "-", 0, <<>>, x.cls, "-", 0)
                                       EXCEPT !.Code = x.code])
          /\ outcome' = [outcome EXCEPT ![u] = CUFExcept(u, x)]
  /\ pc' = [pc EXCEPT ![u] = "done"]
  /\ UNCHANGED <<op, local_file, overwrite, upload_meta, objects, concUFIdle>>

NextConcUF ==
  \/ \E u \in Uploaders : CUFCall(u)
  \/ \E u \in Uploaders : CUFProbe(u)
  \/ \E u \in Uploaders : CUFTransfer(u)
  \/ \E u \in Uploaders : CUFReprobe(u)

SpecConcUF == InitConc /\ [][NextConcUF]_vars

\* the successful transfers, in order of issue
Writes == {i \in DOMAIN calls : calls[i].op = "upload_file" /\ calls[i].res = "ok"}

\* C20: when two uploaders concurrently call upload_file with overwrite
\* disallowed for the same initially absent key, at most one of them
\* writes the object, in every interleaving of their probes and transfers;
\* no transfer replaces an object an earlier transfer wrote.
NoWriteOverExistingObject ==
  (\A u \in Uploaders : op[u] = "upload_file" /\ ~overwrite[u]) => Cardinality(Writes) <= 1

\* C21: the result of upload_file agrees with the store: success = true is
\* returned only when the transfer and the head_object after it both
\* succeeded, and when a result with success = false is returned the
\* objects of the store are those from before the call.
ResultAgreesWithStore ==
  /\ UFSucceeded =>
       /\ Succeeded("upload_file") # {}
       /\ calls[Len(calls)].op = "head_object"
       /\ calls[Len(calls)].res = "ok"
       /\ ~IsProbe(Len(calls))
  /\ (UFDone /\ FailureResult) => objects = objects0

====
